---- MODULE Spec2Model ----
(***************************************************************************)
(* The Logger service of src/src/services/logger.js as a state machine:    *)
(* one Logger instance, the host environment it runs in (browser or not,   *)
(* bun:sqlite loaded or not), the log file, the SQLite database, the       *)
(* console, and the Bun.write appends that are in flight.                  *)
(*                                                                         *)
(* Text is a sequence of tokens.  The characters the code treats specially *)
(* (double quote, comma, line break) are always tokens of their own, so    *)
(* quoting, joining and counting lines work on them as they do on a        *)
(* JavaScript string.                                                      *)
(***************************************************************************)
EXTENDS Integers, Sequences, FiniteSets, TLC

\* Bounds of the model.
MaxLogs == 2
MaxTime == 1
MaxCloses == 2

Undefined == "undefined"
Q == "\""
NL == "\n"

\* Inputs of log(): levels and messages (arbitrary text, with the delimiters).
Levels == {<<"info">>}
Messages == {<<"hello">>, <<"a ", Q, "quoted", Q, " value">>, <<"two", NL, "lines">>}

\* Inputs of the constructor.
Types == {Undefined, "console", "csv", "sqlite", "syslog"}
Options ==
    [type : Types, filePath : {Undefined, "logs.csv"}, dbPath : {Undefined, "logs.db"}]

\* The log file and the logs table an earlier run has left.
Header == <<"timestamp", ",", "level", ",", "message", NL>>
NoFile == [exists |-> FALSE, content |-> <<>>]
OldFile == [exists |-> TRUE, content |-> Header \o <<Q, "old", Q, NL>>]
NoTable == [exists |-> FALSE, rows |-> <<>>, seq |-> 0]
OldTable ==
    [exists |-> TRUE,
     rows |-> <<[id |-> 1, timestamp |-> <<"old">>, level |-> <<"info">>, message |-> <<"hello">>]>>,
     seq |-> 1]

VARIABLES
    window,     \* TRUE iff `typeof window !== "undefined"`
    Database,   \* TRUE iff the module-level import of bun:sqlite succeeded
    sink,       \* "none" before construction, "open" once constructed, "failed" if the constructor threw
    requested,  \* options.type as the constructor was called with
    this,       \* the Logger's fields: type, filePath, dbPath, db
    file,       \* the log file
    table,      \* the logs table of the database file
    conn,       \* the connection behind this.db: "none", "open", "closed"
    out,        \* what was written to the console, in order
    pending,    \* indices (into calls) of the Bun.write appends in flight
    calls,      \* the log() calls made so far
    now,        \* the wall clock
    closes,     \* number of close() calls made
    failed,     \* TRUE iff a backend operation has failed since construction
    last,       \* the caller's last call: its name, the options given (new), what it
                \* raised to the caller, what it touched before returning
    handler,    \* the ErrorHandler of src/unnamed/part_002 and what it has done
    iconCache,  \* Icon.jsx: the Map from cache keys to lazy components (their numbers)
    lazies,     \* Icon.jsx: the lazy components created so far, in order
    render,     \* Icon.jsx: the last render of Icon: its props and what getCachedIcon did
    debounced,  \* utils: one function made by debounce, its timers, calls and runs of func
    throttled,  \* utils: one function made by throttle, its timers, calls and runs of func
    merged,     \* utils: one call of mergeObjects: its arguments and what it did
    fetcher,    \* utils: the FetchService, its requests and what it has logged
    boundary,   \* ErrorBoundary.jsx: the component's props and state, and what it did
    news,       \* NewsExplorer (src/unnamed/part_005): its state and its searches
    query,      \* utils: the object given to buildQueryString, the query string built
                \* from it and the object parseQueryString has read from that string
    i18n        \* I18nProvider.jsx: the provider's state, the warnings and the last call

loggerVars ==
    <<window, Database, sink, requested, this, file, table, conn, out, pending, calls,
      now, closes, failed, last>>

iconVars == <<iconCache, lazies, render>>

vars == <<loggerVars, handler, iconVars, debounced, throttled, merged, fetcher, boundary, news, query, i18n>>

----------------------------------------------------------------------------
\* Pure functions of log().

Min(a, b) == IF a < b THEN a ELSE b

\* Date.prototype.toISOString: text free of quotes, commas and line breaks.
toISOString(t) == <<"T", ToString(t)>>

UpperChar(c) ==
    CASE c = "a" -> "A"
      [] c = "e" -> "E"
      [] c = "info" -> "INFO"
      [] c = "error" -> "ERROR"
      [] c = "q" -> "Q"
      [] OTHER -> c

toUpperCase(s) == [i \in 1..Len(s) |-> UpperChar(s[i])]

formattedMessage(timestamp, level, message) ==
    <<"[">> \o timestamp \o <<"]", " ", "[">> \o toUpperCase(level) \o <<"]", " ">> \o message

\* The message left as it is, its quotes not doubled.
safeMessageUnescaped(message) == message

RECURSIVE safeMessage(_)
safeMessage(message) ==
    IF message = <<>> THEN <<>>
    ELSE (IF Head(message) = Q THEN <<Q, Q>> ELSE <<Head(message)>>)
         \o safeMessage(Tail(message))

csvLine(timestamp, level, message) ==
    <<Q>> \o timestamp \o <<Q, ",", Q>> \o level \o <<Q, ",", Q>>
    \o safeMessage(message) \o <<Q, NL>>

\* Console entries.
Entry(chan, text) == [chan |-> chan, text |-> text]
LoadFailed == Entry("console.error", <<"Failed to load bun:sqlite:">>)
BrowserWarning ==
    Entry("console.warn", <<"SQLite logging is not supported in the browser. Falling back to console logging.">>)
NoDatabaseModule == Entry("console.error", <<"Database module is not available.">>)
InitFailed == Entry("console.error", <<"Failed to initialize SQLite database:">>)
CsvWriteFailed == Entry("console.error", <<"Failed to write to the CSV file:">>)
InsertFailed == Entry("console.error", <<"Failed to insert log into SQLite database:">>)
CloseFailed == Entry("console.error", <<"Error closing the SQLite database:">>)

----------------------------------------------------------------------------
\* The state when the module has been loaded and no Logger exists yet.

NoThis == [type |-> Undefined, filePath |-> Undefined, dbPath |-> Undefined, db |-> Undefined]
NoOptions == [type |-> Undefined, filePath |-> Undefined, dbPath |-> Undefined]
Did(op, options, raised, touched) ==
    [op |-> op, options |-> options, raised |-> raised, touched |-> touched]

\* What is on disk before the program starts: nothing, or the log file and
\* the database of an earlier run.
Disks == {[file |-> NoFile, table |-> NoTable], [file |-> OldFile, table |-> OldTable]}

\* No ErrorHandler has been constructed.
NoHandler ==
    [built |-> "none", logger |-> Undefined, sentryEnabled |-> FALSE,
     sentryDsn |-> Undefined, sentry |-> Undefined, import |-> "none",
     entries |-> <<>>, reports |-> <<>>, captures |-> 0, error |-> Undefined,
     raised |-> "none"]

\* The components other than `component` are not in use: they are in the
\* state they have when their modules are loaded, and stay in it.
\* The Logger module is loaded outside a browser, with bun:sqlite, on an
\* empty disk, and no Logger of the model has been constructed.
LoggerAtRest ==
    /\ window = FALSE
    /\ Database = TRUE
    /\ out = <<>>
    /\ sink = "none"
    /\ requested = Undefined
    /\ this = NoThis
    /\ file = NoFile
    /\ table = NoTable
    /\ conn = "none"
    /\ pending = {}
    /\ calls = <<>>
    /\ now = 0
    /\ closes = 0
    /\ failed = FALSE
    /\ last = Did("load", NoOptions, "none", {})

\* Icon.jsx is loaded: the cache is empty and nothing was rendered.
NoRender ==
    [count |-> 0, iconSet |-> <<>>, iconName |-> <<>>, returned |-> 0, created |-> FALSE,
     raised |-> "none"]
IconsAtRest == iconCache = <<>> /\ lazies = <<>> /\ render = NoRender

\* debounce has not been called.  made: debounce(func, delay) returned its
\* function; timer: the closure's variable (0: undefined); timers: the
\* timeouts set and neither fired nor cleared; ids: timeouts set so far;
\* calls, runs: the calls of the returned function and the runs of func.
NoDebounced ==
    [made |-> FALSE, delay |-> 0, timer |-> 0, timers |-> {}, ids |-> 0, calls |-> <<>>,
     runs |-> <<>>, now |-> 0]

\* throttle has not been called.  made: throttle(func, limit) returned its
\* function; inThrottle: the closure's variable (FALSE: undefined or false);
\* timers: the due times of the timeouts set and not fired.
NoThrottled ==
    [made |-> FALSE, limit |-> 0, inThrottle |-> FALSE, timers |-> <<>>, calls |-> <<>>,
     runs |-> <<>>, now |-> 0]

\* An object is a function from its own keys to values; a value is a
\* primitive (a number) or an object.
EmptyObject == [key \in {} |-> 0]
Prim(n) == [kind |-> "prim", prim |-> n, obj |-> EmptyObject]
Obj(o) == [kind |-> "obj", prim |-> 0, obj |-> o]

\* mergeObjects has not been called.
NoMerge ==
    [done |-> FALSE, target |-> EmptyObject, sources |-> <<>>, result |-> EmptyObject,
     raised |-> "none"]

\* No FetchService has been constructed.  logger: the type of the sink of
\* its Logger; entries: what its logger.log calls have written, each with the
\* number of the request it names; requests: the request() calls made.
\* headers: an object from header names to values, or none given.
NoHeaders == [given |-> FALSE, fields |-> EmptyObject]
Headers(fields) == [given |-> TRUE, fields |-> fields]
NoFetchService ==
    [built |-> FALSE, logger |-> Undefined,
     defaultOptions |-> [method |-> Undefined, headers |-> NoHeaders],
     entries |-> <<>>, requests |-> <<>>]

\* No ErrorBoundary has been constructed.  fallback: props.fallback;
\* hasError: this.state.hasError; returned: what the last render() returned;
\* caught, handed: the componentDidCatch calls and the captureError calls
\* made in them; steps: the calls React has made on the component.
NoBoundary ==
    [built |-> FALSE, fallback |-> Undefined, hasError |-> FALSE, returned |-> "none",
     caught |-> 0, handed |-> 0, raised |-> "none", steps |-> 0]

\* NewsExplorer has not been rendered.  query, articles ("none": the empty
\* list, else the query whose hits they are), loading, error: its states;
\* searches: the runs of the debounced search, each with its query and how
\* far it has come.
NoNews ==
    [mounted |-> FALSE, query |-> "none", articles |-> "none", loading |-> FALSE,
     error |-> FALSE, searches |-> <<>>]

\* Neither buildQueryString nor parseQueryString has been called.  params:
\* the entries of the object given to buildQueryString, in the order of
\* Object.entries; built: the string it returned; parsed: the object
\* parseQueryString returned for that string.
NoQuery ==
    [op |-> "none", params |-> <<>>, built |-> <<>>, parsed |-> EmptyObject,
     raised |-> "none"]

\* A value read from an object: a translation table, a value inherited from
\* Object.prototype, or undefined.
Value(kind, name) == [kind |-> kind, name |-> name]

\* I18nProvider has not been rendered.  locale, messages: the two states of
\* useState; warnings: the locales console.warn has named; last: the last
\* call of changeLocale or t, what it returned and raised.
NoCall ==
    [op |-> "none", locale |-> Undefined, key |-> <<>>, args |-> <<>>, returned |-> <<>>,
     string |-> TRUE, raised |-> "none"]
NoProvider ==
    [mounted |-> FALSE, locale |-> Undefined, messages |-> Value("undefined", Undefined),
     warnings |-> <<>>, calls |-> 0, last |-> NoCall]

OthersAtRest(component) ==
    /\ component # "Logger" => LoggerAtRest
    /\ component \notin {"ErrorHandler", "ErrorBoundary"} => handler = NoHandler
    /\ component # "ErrorBoundary" => boundary = NoBoundary
    /\ component # "Icon" => IconsAtRest
    /\ component \notin {"debounce", "NewsExplorer"} => debounced = NoDebounced
    /\ component # "NewsExplorer" => news = NoNews
    /\ component # "queryString" => query = NoQuery
    /\ component # "throttle" => throttled = NoThrottled
    /\ component # "mergeObjects" => merged = NoMerge
    /\ component # "FetchService" => fetcher = NoFetchService
    /\ component # "I18nProvider" => i18n = NoProvider

OthersUnchanged(component) ==
    /\ component # "Logger" => UNCHANGED loggerVars
    /\ component \notin {"ErrorHandler", "ErrorBoundary"} => UNCHANGED handler
    /\ component # "ErrorBoundary" => UNCHANGED boundary
    /\ component # "Icon" => UNCHANGED iconVars
    /\ component \notin {"debounce", "NewsExplorer"} => UNCHANGED debounced
    /\ component # "NewsExplorer" => UNCHANGED news
    /\ component # "queryString" => UNCHANGED query
    /\ component # "throttle" => UNCHANGED throttled
    /\ component # "mergeObjects" => UNCHANGED merged
    /\ component # "FetchService" => UNCHANGED fetcher
    /\ component # "I18nProvider" => UNCHANGED i18n

Init ==
    /\ OthersAtRest("Logger")
    /\ window \in BOOLEAN
    /\ Database \in (IF window THEN {FALSE} ELSE BOOLEAN)
    /\ out = IF ~window /\ ~Database THEN <<LoadFailed>> ELSE <<>>
    /\ sink = "none"
    /\ requested = Undefined
    /\ this = NoThis
    /\ \E disk \in Disks : file = disk.file /\ table = disk.table
    /\ conn = "none"
    /\ pending = {}
    /\ calls = <<>>
    /\ now = 0
    /\ closes = 0
    /\ failed = FALSE
    /\ last = Did("load", NoOptions, "none", {})

----------------------------------------------------------------------------
\* new Logger(options).

\* What the constructor did: what it raised ("none" when it returned), the
\* fields it set, the file, the connection and the table it left, what it
\* printed, and what it touched.
Built(raised, t, f, c, tb, diag, touched) ==
    [raised |-> raised, this |-> t, file |-> f, conn |-> c, table |-> tb,
     diag |-> diag, touched |-> touched]

\* this.type = options.type || "console"
DefaultType(options) == IF options.type = Undefined THEN "console" ELSE options.type

\* The csv branch without its check of options.filePath.
CsvBranchUnchecked(options, statOk, headerOk) ==
    LET t1 == [NoThis EXCEPT !.type = "csv", !.filePath = options.filePath]
    IN  IF statOk /\ options.filePath # Undefined
        THEN Built("none", t1, file, conn, table, <<>>, {"file"})
        ELSE IF headerOk
        THEN Built("none", t1, [exists |-> TRUE, content |-> Header], conn, table,
                   <<>>, {"file"})
        ELSE Built("OtherError", t1, file, conn, table, <<>>, {"file"})

\* statOk: Bun.statSync returned; headerOk: Bun.writeFileSync returned.
CsvBranch(options, statOk, headerOk) ==
    LET t == [NoThis EXCEPT !.type = "csv"]
        t1 == [t EXCEPT !.filePath = options.filePath]
    IN  IF options.filePath = Undefined
        THEN Built("ConfigError", t, file, conn, table, <<>>, {})
        ELSE IF statOk
        THEN Built("none", t1, file, conn, table, <<>>, {"file"})
        ELSE IF headerOk
        THEN Built("none", t1, [exists |-> TRUE, content |-> Header], conn, table,
                   <<>>, {"file"})
        ELSE Built("OtherError", t1, file, conn, table, <<>>, {"file"})

\* The initialisation with its catch block rethrowing instead of falling back.
SqliteInitRethrows(t1, openOk, createOk) ==
    LET t2 == [t1 EXCEPT !.db = "handle"]
    IN  IF ~openOk
        THEN Built("OtherError", t1, file, conn, table, <<InitFailed>>,
                   {"db", "console.error"})
        ELSE IF ~createOk
        THEN Built("OtherError", t2, file, "open", table, <<InitFailed>>,
                   {"db", "console.error"})
        ELSE Built("none", t2, file, "open", [table EXCEPT !.exists = TRUE],
                   <<>>, {"db"})

\* openOk: new Database(dbPath) returned; createOk: CREATE TABLE IF NOT EXISTS returned.
SqliteInit(t1, openOk, createOk) ==
    LET t2 == [t1 EXCEPT !.db = "handle"]
    IN  IF ~openOk
        THEN Built("none", [t1 EXCEPT !.type = "console"], file, conn, table,
                   <<InitFailed>>, {"db", "console.error"})
        ELSE IF ~createOk
        THEN Built("none", [t2 EXCEPT !.type = "console"], file, "open", table,
                   <<InitFailed>>, {"db", "console.error"})
        ELSE Built("none", t2, file, "open", [table EXCEPT !.exists = TRUE],
                   <<>>, {"db"})

\* The sqlite branch leaving this.type alone when bun:sqlite is not loaded.
SqliteBranchKeepsType(options, openOk, createOk) ==
    LET t == [NoThis EXCEPT !.type = "sqlite"]
        t1 == [t EXCEPT !.dbPath = options.dbPath]
    IN  IF window
        THEN Built("none", [t EXCEPT !.type = "console"], file, conn, table,
                   <<BrowserWarning>>, {"console.warn"})
        ELSE IF options.dbPath = Undefined
        THEN Built("ConfigError", t, file, conn, table, <<>>, {})
        ELSE IF ~Database
        THEN Built("none", t1, file, conn, table, <<NoDatabaseModule>>, {"console.error"})
        ELSE SqliteInit(t1, openOk, createOk)

SqliteBranch(options, openOk, createOk) ==
    LET t == [NoThis EXCEPT !.type = "sqlite"]
        t1 == [t EXCEPT !.dbPath = options.dbPath]
    IN  IF window
        THEN Built("none", [t EXCEPT !.type = "console"], file, conn, table,
                   <<BrowserWarning>>, {"console.warn"})
        ELSE IF options.dbPath = Undefined
        THEN Built("ConfigError", t, file, conn, table, <<>>, {})
        ELSE IF ~Database
        THEN Built("none", [t1 EXCEPT !.type = "console"], file, conn, table,
                   <<NoDatabaseModule>>, {"console.error"})
        ELSE SqliteInit(t1, openOk, createOk)

Constructor(options, statOk, headerOk, openOk, createOk) ==
    LET type == DefaultType(options)
    IN  IF type = "csv" THEN CsvBranch(options, statOk, headerOk)
        ELSE IF type = "sqlite" THEN SqliteBranch(options, openOk, createOk)
        ELSE Built("none", [NoThis EXCEPT !.type = type], file, conn, table, <<>>, {})

New(options) ==
    /\ sink = "none"
    /\ \E statOk \in (IF file.exists THEN BOOLEAN ELSE {FALSE}),
          headerOk \in BOOLEAN, openOk \in BOOLEAN, createOk \in BOOLEAN :
          LET r == Constructor(options, statOk, headerOk, openOk, createOk)
          IN  /\ sink' = IF r.raised = "none" THEN "open" ELSE "failed"
              /\ requested' = options.type
              /\ this' = r.this
              /\ file' = r.file
              /\ conn' = r.conn
              /\ table' = r.table
              /\ out' = out \o r.diag
              /\ last' = Did("new", options, r.raised, r.touched)
    /\ UNCHANGED <<window, Database, pending, calls, now, closes, failed>>

----------------------------------------------------------------------------
\* log(level, message).

\* What one log() call did: what it raised, the Logger's fields, the
\* console, the appends in flight and the table it left, whether a backend
\* operation failed, and what it touched.
Effect(raised, t, o, p, tb, fl, touched) ==
    [raised |-> raised, this |-> t, out |-> o, pending |-> p, table |-> tb,
     failed |-> fl, touched |-> touched]

ConsoleCase(timestamp, level, message) ==
    Effect("none", this,
           Append(out, Entry("console.log", formattedMessage(timestamp, level, message))),
           pending, table, FALSE, {"console.log"})

\* write: "pending" when Bun.write returned its promise, "throws" when the
\* call itself threw (Bun or Bun.write is not there).
CsvCase(timestamp, level, message, write) ==
    IF write = "throws"
    THEN Effect("OtherError", this, out, pending, table, TRUE, {"file"})
    ELSE Effect("none", this, out, pending \cup {Len(calls) + 1}, table, FALSE, {"file"})

\* A row that takes the last id given instead of the next one.
RowReusesId(timestamp, level, message) ==
    [id |-> table.seq, timestamp |-> timestamp, level |-> level, message |-> message]

Row(timestamp, level, message) ==
    [id |-> table.seq + 1, timestamp |-> timestamp, level |-> level, message |-> message]

\* The sqlite case falling back to the console once an INSERT has failed.
SqliteCaseFallsBack(timestamp, level, message, insertOk) ==
    IF this.db # Undefined /\ conn = "open" /\ table.exists /\ insertOk
    THEN Effect("none", this, out, pending,
                [table EXCEPT !.rows = Append(@, Row(timestamp, level, message)),
                              !.seq = @ + 1],
                FALSE, {"db"})
    ELSE Effect("none", [this EXCEPT !.type = "console"], Append(out, InsertFailed),
                pending, table, TRUE, {"db", "console.error"})

\* insertOk: the INSERT ran; it cannot on a missing or closed connection.
SqliteCase(timestamp, level, message, insertOk) ==
    IF this.db = Undefined
    THEN Effect("none", this, Append(out, InsertFailed), pending, table, TRUE,
                {"console.error"})
    ELSE IF conn = "open" /\ table.exists /\ insertOk
    THEN Effect("none", this, out, pending,
                [table EXCEPT !.rows = Append(@, Row(timestamp, level, message)),
                              !.seq = @ + 1],
                FALSE, {"db"})
    ELSE Effect("none", this, Append(out, InsertFailed), pending, table, TRUE,
                {"db", "console.error"})

Dispatch(timestamp, level, message, write, insertOk) ==
    CASE this.type = "console" -> ConsoleCase(timestamp, level, message)
      [] this.type = "csv" -> CsvCase(timestamp, level, message, write)
      [] this.type = "sqlite" -> SqliteCase(timestamp, level, message, insertOk)
      [] OTHER -> ConsoleCase(timestamp, level, message)

Log(level, message) ==
    /\ sink = "open"
    /\ Len(calls) < MaxLogs
    /\ \E t \in now..Min(now + 1, MaxTime), write \in {"pending", "throws"},
          insertOk \in BOOLEAN :
          LET timestamp == toISOString(t)
              e == Dispatch(timestamp, level, message, write, insertOk)
          IN  /\ now' = t
              /\ calls' = Append(calls, [timestamp |-> timestamp, level |-> level,
                                         message |-> message])
              /\ this' = e.this
              /\ out' = e.out
              /\ pending' = e.pending
              /\ table' = e.table
              /\ failed' = (failed \/ e.failed)
              /\ last' = Did("log", NoOptions, e.raised, e.touched)
    /\ UNCHANGED <<window, Database, sink, requested, file, conn, closes>>

\* The append of call i completes: Bun.write(filePath, csvLine, { append: true }).
Appended(f, line) == [exists |-> TRUE, content |-> f.content \o line]

Resolve(i) ==
    /\ i \in pending
    /\ file' = Appended(file, csvLine(calls[i].timestamp, calls[i].level, calls[i].message))
    /\ pending' = pending \ {i}
    /\ UNCHANGED <<window, Database, sink, requested, this, table, conn, out, calls, now,
                   closes, failed, last>>

\* The append of call i fails: the promise rejects and .catch reports it.
Reject(i) ==
    /\ i \in pending
    /\ pending' = pending \ {i}
    /\ out' = Append(out, CsvWriteFailed)
    /\ failed' = TRUE
    /\ UNCHANGED <<window, Database, sink, requested, this, file, table, conn, calls, now,
                   closes, last>>

----------------------------------------------------------------------------
\* close().

\* close() without its test of this.type: it closes whatever handle there is.
ClosedWhateverType(closeOk) ==
    IF this.db # Undefined
    THEN IF closeOk
         THEN [raised |-> "none", this |-> this, conn |-> "closed", out |-> out,
               failed |-> failed, touched |-> {"db"}]
         ELSE [raised |-> "none", this |-> this, conn |-> conn,
               out |-> Append(out, CloseFailed), failed |-> TRUE,
               touched |-> {"db", "console.error"}]
    ELSE [raised |-> "none", this |-> this, conn |-> conn, out |-> out,
          failed |-> failed, touched |-> {}]

\* close() without its try block: a failure of db.close() escapes.
ClosedRethrows(closeOk) ==
    IF this.type = "sqlite" /\ this.db # Undefined
    THEN IF closeOk
         THEN [raised |-> "none", this |-> this, conn |-> "closed", out |-> out,
               failed |-> failed, touched |-> {"db"}]
         ELSE [raised |-> "OtherError", this |-> this, conn |-> conn, out |-> out,
               failed |-> TRUE, touched |-> {"db"}]
    ELSE [raised |-> "none", this |-> this, conn |-> conn, out |-> out,
          failed |-> failed, touched |-> {}]

\* What close() did: what it raised, the fields, the connection and the
\* console it left, whether a backend operation failed, what it touched.
\* closeOk: db.close() returned.
Closed(closeOk) ==
    IF this.type = "sqlite" /\ this.db # Undefined
    THEN IF closeOk
         THEN [raised |-> "none", this |-> this, conn |-> "closed", out |-> out,
               failed |-> failed, touched |-> {"db"}]
         ELSE [raised |-> "none", this |-> this, conn |-> conn,
               out |-> Append(out, CloseFailed), failed |-> TRUE,
               touched |-> {"db", "console.error"}]
    ELSE [raised |-> "none", this |-> this, conn |-> conn, out |-> out,
          failed |-> failed, touched |-> {}]

Close ==
    /\ sink = "open"
    /\ closes < MaxCloses
    /\ \E closeOk \in BOOLEAN :
          LET c == Closed(closeOk)
          IN  /\ this' = c.this
              /\ conn' = c.conn
              /\ out' = c.out
              /\ failed' = c.failed
              /\ last' = Did("close", NoOptions, c.raised, c.touched)
    /\ closes' = closes + 1
    /\ UNCHANGED <<window, Database, sink, requested, file, table, pending, calls, now>>

----------------------------------------------------------------------------
Next ==
    \/ \E options \in Options : New(options) /\ OthersUnchanged("Logger")
    \/ \E level \in Levels, message \in Messages :
          Log(level, message) /\ OthersUnchanged("Logger")
    \/ \E i \in 1..MaxLogs + 1 : Resolve(i) /\ OthersUnchanged("Logger")
    \/ \E i \in 1..MaxLogs + 1 : Reject(i) /\ OthersUnchanged("Logger")
    \/ Close /\ OthersUnchanged("Logger")

Spec == Init /\ [][Next]_vars

----------------------------------------------------------------------------
\* One log() call on a csv sink, over every level and message of a larger
\* alphabet: the format of the line it writes.

MaxTextLen == 2
FormatChars == {"a", Q, ",", NL}
Texts(n) == UNION {[1..k -> FormatChars] : k \in 0..n}
QuotedValue == <<"a ", Q, "quoted", Q, " value">>
FormatMessages == Texts(MaxTextLen) \cup {QuotedValue}
FormatLevels == {<<"info">>, <<"error">>} \cup (Texts(1) \ {<<>>})

FormatNext ==
    \/ \E options \in {o \in Options : o.type = "csv"} :
          New(options) /\ OthersUnchanged("Logger")
    \/ \E level \in FormatLevels, message \in FormatMessages :
          calls = <<>> /\ Log(level, message) /\ OthersUnchanged("Logger")
    \/ Resolve(1) /\ OthersUnchanged("Logger")
    \/ Reject(1) /\ OthersUnchanged("Logger")

FormatSpec == Init /\ [][FormatNext]_vars

----------------------------------------------------------------------------
\* Properties.

IsNew == last.op = "new"
IsLog == last.op = "log"
AskedCsv == IsNew /\ DefaultType(last.options) = "csv"
AskedSqlite == IsNew /\ DefaultType(last.options) = "sqlite"

\* C1: log(level, message) never raises to its caller, whatever the backend
\* and whatever fails in it.
LogNeverRaises == IsLog => last.raised = "none"

\* C2: the constructor returns a sink or raises the configuration error for a
\* missing required path; no other error escapes it.
ConstructorRaisesOnlyConfigError ==
    IsNew =>
        /\ last.raised \in {"none", "ConfigError"}
        /\ last.raised = "ConfigError" =>
              \/ AskedCsv /\ last.options.filePath = Undefined
              \/ AskedSqlite /\ last.options.dbPath = Undefined

\* C3 as stated: csv without filePath, or sqlite without dbPath, fails at
\* construction with the configuration error in every environment.
MissingPathAlwaysRaises ==
    (\/ AskedCsv /\ last.options.filePath = Undefined
     \/ AskedSqlite /\ last.options.dbPath = Undefined)
    => last.raised = "ConfigError" /\ sink = "failed"

\* C3 amended: csv without filePath fails at construction with the
\* configuration error in every environment; sqlite without dbPath does so
\* wherever `window` is undefined (bun:sqlite loaded or not) and in a browser
\* yields a console sink with the warning; and no sink is ever left with the
\* type csv or sqlite and without its path.
MissingPathRaisesOutsideBrowser ==
    /\ AskedCsv /\ last.options.filePath = Undefined
          => last.raised = "ConfigError" /\ sink = "failed"
    /\ AskedSqlite /\ last.options.dbPath = Undefined /\ ~window
          => last.raised = "ConfigError" /\ sink = "failed"
    /\ AskedSqlite /\ last.options.dbPath = Undefined /\ window
          => /\ last.raised = "none"
             /\ sink = "open"
             /\ this.type = "console"
             /\ out = <<BrowserWarning>>
    /\ sink = "open" /\ this.type = "csv" => this.filePath # Undefined
    /\ sink = "open" /\ this.type = "sqlite" =>
          this.dbPath # Undefined /\ this.db # Undefined

\* C3 witness: sqlite without dbPath, outside a browser with bun:sqlite not
\* loaded, has raised the configuration error.
MissingDbPathRaised ==
    /\ AskedSqlite
    /\ last.options.dbPath = Undefined
    /\ ~window
    /\ ~Database
    /\ last.raised = "ConfigError"

\* What reached the console through console.log, and through the diagnostic
\* channel (console.warn, console.error).
ConsoleLog == SelectSeq(out, LAMBDA e : e.chan = "console.log")
Diagnostics == SelectSeq(out, LAMBDA e : e.chan # "console.log")
Printed(entry) == \E i \in 1..Len(out) : out[i] = entry

\* The line `[timestamp] [LEVEL] message` of a call.
LevelName(level) ==
    CASE level = <<"info">> -> <<"INFO">>
      [] level = <<"error">> -> <<"ERROR">>
ConsoleLineOf(call) ==
    <<"[">> \o call.timestamp \o <<"]", " ", "[">> \o LevelName(call.level)
    \o <<"]", " ">> \o call.message

\* Every log() call so far printed its line with console.log, in call order,
\* and touched neither the file nor the database.
AllCallsWentToConsole ==
    /\ ConsoleLog = [i \in 1..Len(calls) |-> Entry("console.log", ConsoleLineOf(calls[i]))]
    /\ pending = {}
    /\ \E disk \in Disks : file = disk.file /\ table = disk.table
    /\ IsLog => last.raised = "none" /\ last.touched = {"console.log"}

\* C4: a Logger asked for sqlite where the database capability is missing
\* (a browser, or bun:sqlite did not load) is a console sink: every log()
\* call prints exactly its console line and does nothing on a database or a
\* file.
NoCapabilityIsConsoleSink ==
    sink = "open" /\ requested = "sqlite" /\ (window \/ ~Database) =>
        /\ this.type = "console"
        /\ this.db = Undefined
        /\ conn = "none"
        /\ AllCallsWentToConsole
        /\ Len(out) = Len(Diagnostics) + Len(calls)
        /\ Diagnostics \in {<<BrowserWarning>>, <<LoadFailed, NoDatabaseModule>>}

\* C4 witness: in a browser, a Logger asked for sqlite has logged twice.
BrowserSqliteLoggedTwice ==
    /\ sink = "open"
    /\ requested = "sqlite"
    /\ window
    /\ Len(calls) >= 2
    /\ Len(ConsoleLog) >= 2

\* C5: when opening the database or creating the logs table raises, the
\* constructor still returns: the sink is a console sink, one error-level
\* diagnostic was printed, and every later log() call goes to the console.
InitFailureFallsBackToConsole ==
    /\ AskedSqlite /\ ~window /\ Database /\ last.options.dbPath # Undefined
          => last.raised = "none" /\ sink = "open"
    /\ sink # "none" /\ Printed(InitFailed) =>
          /\ sink = "open"
          /\ this.type = "console"
          /\ Diagnostics = <<InitFailed>>
          /\ AllCallsWentToConsole
          /\ Len(out) = 1 + Len(calls)

\* C5 witness: the database opened, CREATE TABLE raised, and the sink has
\* logged twice since.
CreateTableFailedLoggedTwice ==
    /\ sink = "open"
    /\ Printed(InitFailed)
    /\ conn = "open"
    /\ Len(calls) >= 2

\* C6: once constructed, no log() or close() call and no backend failure
\* changes the sink's type, filePath or dbPath.
ConfigurationNeverChanges ==
    [][sink = "open" =>
          /\ sink' = "open"
          /\ this'.type = this.type
          /\ this'.filePath = this.filePath
          /\ this'.dbPath = this.dbPath]_vars

\* C6 witness: a sqlite sink is still a sqlite sink after its connection was
\* closed and an INSERT failed.
SqliteAfterFailures ==
    /\ sink = "open"
    /\ this.type = "sqlite"
    /\ conn = "closed"
    /\ Printed(InsertFailed)

\* The number of lines of a text: each line ends with a line break.
Lines(text) == Cardinality({i \in 1..Len(text) : text[i] = NL})
IsPrefix(p, t) == Len(p) <= Len(t) /\ SubSeq(t, 1, Len(p)) = p

\* The file held the header alone, and the table no row, when the sink was
\* constructed.
FreshFile == file.exists /\ ~IsPrefix(OldFile.content, file.content)
FreshTable == table.rows = <<>> \/ table.rows[1] # OldTable.rows[1]
RowsBefore == IF FreshTable THEN 0 ELSE Len(OldTable.rows)

\* C7: while no backend operation fails, each log() call adds exactly one
\* entry to the active backend and none to another: one console line, one
\* CSV line or one table row; after N calls on a fresh csv sink, all writes
\* resolved, the file holds N+1 lines.
EachLogAddsOneEntry ==
    sink = "open" /\ ~failed /\ pending = {} =>
        CASE this.type = "csv" ->
                /\ Len(ConsoleLog) = 0
                /\ \E disk \in Disks : table = disk.table
                /\ FreshFile => Lines(file.content) = Len(calls) + 1
          [] this.type = "sqlite" ->
                /\ Len(ConsoleLog) = 0
                /\ \E disk \in Disks : file = disk.file
                /\ Len(table.rows) = RowsBefore + Len(calls)
          [] OTHER ->
                /\ Len(ConsoleLog) = Len(calls)
                /\ \E disk \in Disks : file = disk.file /\ table = disk.table

\* The lines of calls[from..], one after the other.
RECURSIVE LinesFrom(_)
LinesFrom(from) ==
    IF from > Len(calls) THEN <<>>
    ELSE csvLine(calls[from].timestamp, calls[from].level, calls[from].message)
         \o LinesFrom(from + 1)

\* C8: the entries of log() calls issued back to back on one csv sink end up
\* in the file in call order, although the appends are not awaited.
CsvEntriesInCallOrder ==
    sink = "open" /\ this.type = "csv" /\ FreshFile /\ ~failed /\ pending = {} =>
        file.content = Header \o LinesFrom(1)

\* The rows N calls are to leave in a fresh table: ids 1..N in call order,
\* each with the timestamp, level and message of its call.
RowsOfCalls ==
    [i \in 1..Len(calls) |->
        [id |-> i, timestamp |-> calls[i].timestamp, level |-> calls[i].level,
         message |-> calls[i].message]]

QuotesBefore(m, i) == Cardinality({j \in 1..(i - 1) : m[j] = Q})
Place(m, i) == i + QuotesBefore(m, i)
Doubled(m) ==
    [k \in 1..(Len(m) + QuotesBefore(m, Len(m) + 1)) |->
        m[CHOOSE i \in 1..Len(m) :
              Place(m, i) <= k /\ k <= Place(m, i) + (IF m[i] = Q THEN 1 ELSE 0)]]

\* What the sink has appended to the file it found or created.
Written ==
    IF IsPrefix(OldFile.content, file.content)
    THEN SubSeq(file.content, Len(OldFile.content) + 1, Len(file.content))
    ELSE SubSeq(file.content, Len(Header) + 1, Len(file.content))

\* C10: the csv backend writes an entry as "<timestamp>","<level>","<message>"
\* and a line break, each field wrapped in double quotes and every double
\* quote of the message doubled; `a "quoted" value` becomes the field
\* "a ""quoted"" value".
CsvLineFormat ==
    sink = "open" /\ this.type = "csv" /\ Len(calls) = 1 /\ pending = {} /\ ~failed =>
        /\ Written = <<Q>> \o calls[1].timestamp \o <<Q, ",", Q>> \o calls[1].level
                     \o <<Q, ",", Q>> \o Doubled(calls[1].message) \o <<Q, NL>>
        /\ calls[1].message = QuotedValue =>
              SubSeq(Written, Len(Written) - 9, Len(Written)) =
                  <<Q, "a ", Q, Q, "quoted", Q, Q, " value", Q, NL>>

\* C10 witness: `a "quoted" value` has been logged at level error and its
\* line is in the file.
QuotedValueWritten ==
    /\ sink = "open"
    /\ this.type = "csv"
    /\ calls = <<[timestamp |-> toISOString(0), level |-> <<"error">>,
                 message |-> QuotedValue]>>
    /\ pending = {}
    /\ ~failed
    /\ Written = <<Q, "T", "0", Q, ",", Q, "error", Q, ",",
                   Q, "a ", Q, Q, "quoted", Q, Q, " value", Q, NL>>

\* The file as it was before the constructor ran: the csv branch leaves the
\* table alone, so the table tells which disk the program started on.
FileBefore == IF table = OldTable THEN OldFile ELSE NoFile

\* C11: constructing a csv sink ensures the file exists before returning: an
\* absent file is created holding exactly the header line; a file that exists
\* keeps its content (no truncation, no second header), also when the
\* existence check fails for a reason other than absence.
CsvConstructionKeepsExistingFile ==
    AskedCsv /\ last.options.filePath # Undefined =>
        /\ last.raised = "none" => file.exists
        /\ FileBefore.exists => file = FileBefore
        /\ ~FileBefore.exists /\ last.raised = "none" =>
              file = [exists |-> TRUE, content |-> Header]

\* C12: close() on a console or csv sink is a no-op: it returns normally,
\* changes nothing of the sink (fields, file, table, connection, console,
\* appends in flight) and touches no backend, however often it is called;
\* a log() call made after it does what log() does on that sink: on a
\* console sink it prints its line, on a csv sink it starts its append.
CloseIsNoOpOnConsoleAndCsv ==
    [][sink = "open" /\ this.type # "sqlite" =>
          /\ closes' # closes =>
                /\ UNCHANGED <<sink, this, file, table, conn, out, pending, calls, failed>>
                /\ last'.raised = "none"
                /\ last'.touched = {}
          /\ closes > 0 /\ calls' # calls /\ this.type # "csv" =>
                /\ last'.raised = "none"
                /\ out' = Append(out, Entry("console.log",
                                             ConsoleLineOf(calls'[Len(calls')])))
          /\ closes > 0 /\ calls' # calls /\ this.type = "csv" /\ last'.raised = "none" =>
                /\ pending' = pending \cup {Len(calls')}
                /\ out' = out
          /\ closes > 0 /\ this.type = "csv" /\ file' # file =>
                \E i \in pending :
                    file'.content = file.content
                        \o csvLine(calls[i].timestamp, calls[i].level, calls[i].message)]_vars

\* C12 witness: a csv sink was closed twice, then logged, and the line of
\* that call is in the file.
CsvLoggedAfterTwoCloses ==
    /\ sink = "open"
    /\ this.type = "csv"
    /\ closes = 2
    /\ IsLog
    /\ Len(calls) = 1
    /\ pending = {}
    /\ ~failed
    /\ Lines(file.content) >= 2

\* C13: on a sqlite sink close() returns normally and either releases the
\* connection or, when the release fails, reports that on console.error and
\* nowhere else; every log() call made after close() returns normally, and
\* an INSERT that fails is reported on console.error and nowhere else.
SqliteCloseAndLateLogNeverRaise ==
    [][sink = "open" /\ this.type = "sqlite" =>
          /\ closes' # closes =>
                /\ last'.op = "close"
                /\ last'.raised = "none"
                /\ \/ conn' = "closed" /\ out' = out
                   \/ conn' = conn /\ out' = Append(out, CloseFailed)
                /\ UNCHANGED <<sink, this, file, table, pending, calls>>
          /\ closes > 0 /\ calls' # calls =>
                /\ last'.op = "log"
                /\ last'.raised = "none"
                /\ \/ Len(table'.rows) = Len(table.rows) + 1 /\ out' = out
                   \/ table' = table /\ out' = Append(out, InsertFailed)
                /\ UNCHANGED <<sink, this, file, conn, pending>>]_vars

\* C13 witness: on a sqlite sink one close() failed, the next released the
\* connection, and the log() call after it returned with its INSERT failed.
LoggedAfterFailedAndDoneClose ==
    /\ sink = "open"
    /\ this.type = "sqlite"
    /\ closes = 2
    /\ Printed(CloseFailed)
    /\ conn = "closed"
    /\ IsLog
    /\ last.raised = "none"
    /\ Printed(InsertFailed)

\* C14: a sink is Open until close() is called and Closed from then on, for
\* good: the connection is released only by a close() call; once close() was
\* called on a sqlite sink no log() call persists a row, nothing reopens the
\* connection, and a further close() does not act on the connection.
ClosedIsTerminal ==
    [][sink = "open" /\ this.type = "sqlite" =>
          /\ conn # "closed" /\ conn' = "closed" => closes' # closes
          /\ closes > 0 =>
                /\ table'.rows = table.rows
                /\ conn = "closed" => conn' = "closed"
                /\ closes' # closes => "db" \notin last'.touched]_vars

----------------------------------------------------------------------------
\* The ErrorHandler of src/unnamed/part_002: it logs every captured error on
\* its Logger and reports it to Sentry once Sentry is enabled and loaded.
\* `handler` holds its fields (logger: the type of the sink of its Logger;
\* sentryEnabled; sentry), the DSN it was given, the state of the import of
\* @sentry/browser, the entries its logger.log calls have written, the
\* captureException calls made on Sentry, and of the last captureError call
\* the error and what it raised.

MaxCaptures == 2

\* Inputs of the constructor and of captureError.
HandlerOptions ==
    [logger : {Undefined, "console", "csv", "sqlite"}, sentryEnabled : BOOLEAN,
     sentryDsn : {Undefined, "dsn"}]
Errors == [message : {"boom", "", Undefined}]
Contexts == {Undefined, "componentStack"}

NoDsn == "Sentry integration is enabled, but no DSN was provided."
SentryInitialized == "Sentry has been initialized successfully."
SentryLoadFailed == "Failed to load Sentry:"

\* this.logger.log(level, message) on a Logger whose sink has that type: what
\* the call raises to the ErrorHandler.  write: see CsvCase.
logOn(type, level, message, write) ==
    LET timestamp == toISOString(now)
    IN  (CASE type = "csv" -> CsvCase(timestamp, <<level>>, <<message>>, write)
           [] type = "sqlite" -> SqliteCase(timestamp, <<level>>, <<message>>, TRUE)
           [] OTHER -> ConsoleCase(timestamp, <<level>>, <<message>>)).raised

\* The entries after this.logger.log(level, message): one more when the call
\* returned.
logged(h, level, message, write) ==
    IF logOn(h.logger, level, message, write) = "none"
    THEN Append(h.entries, [level |-> level, message |-> message])
    ELSE h.entries

\* error.message || 'Unknown error'
messageOf(error) ==
    IF error.message \in {"", Undefined} THEN "Unknown error" ELSE error.message

\* context = {}
extraOf(context) == IF context = Undefined THEN "{}" ELSE context

\* The handler the constructor leaves.
ErrorHandler(options, write) ==
    LET h == [NoHandler EXCEPT
                 !.logger = IF options.logger = Undefined THEN "console"
                            ELSE options.logger,
                 !.sentryEnabled = options.sentryEnabled,
                 !.sentryDsn = options.sentryDsn]
    IN  IF ~h.sentryEnabled THEN [h EXCEPT !.built = "built"]
        ELSE IF options.sentryDsn = Undefined
        THEN LET r == logOn(h.logger, "error", NoDsn, write)
             IN  [h EXCEPT !.built = IF r = "none" THEN "built" ELSE "failed",
                           !.entries = logged(h, "error", NoDsn, write),
                           !.raised = r]
        ELSE [h EXCEPT !.built = "built", !.import = "pending"]

NewHandler(options) ==
    /\ handler.built = "none"
    /\ \E write \in {"pending", "throws"} : handler' = ErrorHandler(options, write)
    /\ OthersUnchanged("ErrorHandler")

\* import('@sentry/browser') is fulfilled: the .then callback runs, and the
\* .catch callback after it when Sentry.init or the info entry raises.
\* initOk: Sentry.init returned.
ImportResolved ==
    /\ handler.import = "pending"
    /\ \E initOk \in BOOLEAN, write \in {"pending", "throws"},
          writeInCatch \in {"pending", "throws"} :
          LET caught(h) ==
                  [h EXCEPT !.entries = logged(h, "error", SentryLoadFailed, writeInCatch)]
              h1 == [handler EXCEPT !.import = "settled"]
              h2 == [h1 EXCEPT !.sentry = "Sentry"]
          IN  handler' =
                  IF ~initOk THEN caught(h1)
                  ELSE IF logOn(h2.logger, "info", SentryInitialized, write) = "none"
                  THEN [h2 EXCEPT !.entries = logged(h2, "info", SentryInitialized, write)]
                  ELSE caught(h2)
    /\ OthersUnchanged("ErrorHandler")

\* import('@sentry/browser') is rejected: the .catch callback runs.
ImportRejected ==
    /\ handler.import = "pending"
    /\ \E write \in {"pending", "throws"} :
          handler' = [handler EXCEPT
                         !.import = "settled",
                         !.entries = logged(handler, "error", SentryLoadFailed, write)]
    /\ OthersUnchanged("ErrorHandler")

\* The handler after captureError(error, context).
captured(error, context, write) ==
    LET r == logOn(handler.logger, "error", messageOf(error), write)
        h == [handler EXCEPT
                 !.captures = @ + 1,
                 !.error = error,
                 !.raised = r,
                 !.entries = logged(handler, "error", messageOf(error), write)]
    IN  IF r = "none" /\ handler.sentryEnabled /\ handler.sentry # Undefined
        THEN [h EXCEPT !.reports = Append(@, [exception |-> error,
                                              extra |-> extraOf(context)])]
        ELSE h

captureError(error, context) ==
    /\ handler.built = "built"
    /\ handler.captures < MaxCaptures
    /\ \E write \in {"pending", "throws"} : handler' = captured(error, context, write)
    /\ OthersUnchanged("ErrorHandler")

HandlerInit == handler = NoHandler /\ OthersAtRest("ErrorHandler")

HandlerNext ==
    \/ \E options \in HandlerOptions : NewHandler(options)
    \/ ImportResolved
    \/ ImportRejected
    \/ \E error \in Errors, context \in Contexts : captureError(error, context)

HandlerSpec == HandlerInit /\ [][HandlerNext]_vars

\* C15: every captureError(error, context) call writes exactly one entry of
\* level error to the handler's logger, with error.message or, when that is
\* empty or missing, 'Unknown error'; it calls Sentry's captureException if
\* and only if sentryEnabled holds and Sentry was initialised when the call
\* was made; a handler with sentryEnabled and no DSN never initialises Sentry
\* and never calls it.
CaptureLogsOnceAndReportsIfReady ==
    [][/\ handler'.captures # handler.captures =>
             /\ handler'.entries =
                    Append(handler.entries,
                           [level |-> "error",
                            message |-> IF handler'.error.message \in {"boom"}
                                        THEN handler'.error.message
                                        ELSE "Unknown error"])
             /\ IF handler.sentryEnabled /\ handler.sentry = "Sentry"
                THEN /\ Len(handler'.reports) = Len(handler.reports) + 1
                     /\ handler'.reports[Len(handler'.reports)].exception = handler'.error
                ELSE handler'.reports = handler.reports
       /\ handler'.sentryEnabled /\ handler'.sentryDsn = Undefined =>
             handler'.sentry = Undefined /\ handler'.reports = <<>>]_vars

----------------------------------------------------------------------------
\* The Icon component of src/src/components/Icon.jsx and its cache of lazy
\* components.  Icon sets and icon names are text; a lazy component is known
\* by its number in `lazies`, which records the props it was created for and
\* how far its import has come.

MaxRenders == 3

\* Props of Icon: supported sets, an unsupported one, names with and without
\* a hyphen.
IconSetProps == {<<"fa">>, <<"md">>, <<"zz">>, <<"fa", "-", "a">>}
IconNameProps == {<<"FaBeer">>, <<"b">>, <<"a", "-", "b">>}

\* const iconSets = { fa: ..., md: ..., gi: ... }
iconSets == {<<"fa">>, <<"md">>, <<"gi">>}

\* The icons the react-icons modules of the model export.
Exported(iconSet, iconName) == iconSet = <<"fa">> /\ iconName = <<"FaBeer">>

\* `${iconSet}-${iconName}`
cacheKey(iconSet, iconName) == iconSet \o <<"-">> \o iconName

\* What getCachedIcon(iconSet, iconName) does: the cache and the lazy
\* components it leaves, the component it returns (0 when it throws), and
\* whether it created one.
getCachedIcon(iconSet, iconName) ==
    LET key == cacheKey(iconSet, iconName)
    IN  IF key \in DOMAIN iconCache
        THEN [iconCache |-> iconCache, lazies |-> lazies, returned |-> iconCache[key],
              created |-> FALSE, raised |-> "none"]
        ELSE IF iconSet \notin iconSets
        THEN [iconCache |-> iconCache, lazies |-> lazies, returned |-> 0,
              created |-> FALSE, raised |-> "NotSupported"]
        ELSE [iconCache |-> [k \in DOMAIN iconCache \cup {key} |->
                                IF k = key THEN Len(lazies) + 1 ELSE iconCache[k]],
              lazies |-> Append(lazies, [iconSet |-> iconSet, iconName |-> iconName,
                                         status |-> "uninitialized"]),
              returned |-> Len(lazies) + 1, created |-> TRUE, raised |-> "none"]

\* React renders <Icon iconSet iconName/>: getCachedIcon, then the lazy
\* component it returned, whose import starts when it is rendered first.
Icon(iconSet, iconName) ==
    /\ render.count < MaxRenders
    /\ LET g == getCachedIcon(iconSet, iconName)
       IN  /\ iconCache' = g.iconCache
           /\ lazies' = IF g.returned # 0 /\ g.lazies[g.returned].status = "uninitialized"
                        THEN [g.lazies EXCEPT ![g.returned].status = "pending"]
                        ELSE g.lazies
           /\ render' = [count |-> render.count + 1, iconSet |-> iconSet,
                         iconName |-> iconName, returned |-> g.returned,
                         created |-> g.created, raised |-> g.raised]
    /\ OthersUnchanged("Icon")

\* The import of lazy component i is fulfilled: the icon is taken from the
\* module, or the callback throws because the module has no such icon.
IconImported(i) ==
    /\ i \in 1..Len(lazies)
    /\ lazies[i].status = "pending"
    /\ lazies' = [lazies EXCEPT ![i].status =
                      IF Exported(lazies[i].iconSet, lazies[i].iconName)
                      THEN "resolved" ELSE "rejected"]
    /\ UNCHANGED <<iconCache, render>>
    /\ OthersUnchanged("Icon")

\* The import of lazy component i is rejected.
IconImportFailed(i) ==
    /\ i \in 1..Len(lazies)
    /\ lazies[i].status = "pending"
    /\ lazies' = [lazies EXCEPT ![i].status = "rejected"]
    /\ UNCHANGED <<iconCache, render>>
    /\ OthersUnchanged("Icon")

IconInit == IconsAtRest /\ OthersAtRest("Icon")

IconNext ==
    \/ \E iconSet \in IconSetProps, iconName \in IconNameProps : Icon(iconSet, iconName)
    \/ \E i \in 1..MaxRenders : IconImported(i)
    \/ \E i \in 1..MaxRenders : IconImportFailed(i)

IconSpec == IconInit /\ [][IconNext]_vars

\* C16: over any sequence of Icon renders there is at most one lazy
\* component per pair (iconSet, iconName); a render whose pair has its
\* component gets that very component back, creates none and starts no
\* import; and a render never gets the component of another pair.
OneLazyComponentPerPair ==
    [][/\ \A i, j \in 1..Len(lazies') :
             lazies'[i].iconSet = lazies'[j].iconSet
             /\ lazies'[i].iconName = lazies'[j].iconName => i = j
       /\ render'.count # render.count =>
             /\ \A i \in 1..Len(lazies) :
                   lazies[i].iconSet = render'.iconSet
                   /\ lazies[i].iconName = render'.iconName
                   => /\ render'.returned = i
                      /\ ~render'.created
                      /\ Len(lazies') = Len(lazies)
                      /\ lazies[i].status # "uninitialized" => lazies' = lazies
             /\ render'.returned # 0 =>
                   /\ lazies'[render'.returned].iconSet = render'.iconSet
                   /\ lazies'[render'.returned].iconName = render'.iconName]_vars

----------------------------------------------------------------------------
\* debounce(func, delay) of src/src/utils/index.js.  Time is a clock that
\* ticks; a timeout may fire at its due time or any time later, as the event
\* loop gets to it.

MaxCalls == 3
MaxClock == 4

Delays == {1, 2}
Args == {"a", "b"}

\* setTimeout(callback, delay): the timeout joins those that are set.  call:
\* the call (its number) whose arguments the callback holds.
setTimeout(timers, id, due, call) == timers \cup {[id |-> id, due |-> due, call |-> call]}

\* A clearTimeout that clears nothing.
clearNothing(timers, id) == timers

\* clearTimeout(id): without effect when no such timeout is set.
clearTimeout(timers, id) == {t \in timers : t.id # id}

\* debounce(func, delay)
debounce(delay) ==
    /\ ~debounced.made
    /\ debounced' = [debounced EXCEPT !.made = TRUE, !.delay = delay]
    /\ OthersUnchanged("debounce")

\* The closure d after the returned function was called with args.
calledWith(d, args) ==
    LET id == d.ids + 1
        cleared == IF d.timer # 0 THEN clearTimeout(d.timers, d.timer) ELSE d.timers
    IN  [d EXCEPT !.calls = Append(@, [args |-> args, at |-> d.now]),
                  !.ids = id,
                  !.timer = id,
                  !.timers = setTimeout(cleared, id, d.now + d.delay, Len(d.calls) + 1)]

\* The returned function is called with args.
Debounced(args) ==
    /\ debounced.made
    /\ Len(debounced.calls) < MaxCalls
    /\ debounced' = calledWith(debounced, args)
    /\ OthersUnchanged("debounce")

\* The closure after the timeout t has fired: func.apply(null, args).  seen:
\* the calls made by then.
fired(t) ==
    [debounced EXCEPT
        !.timers = @ \ {t},
        !.runs = Append(@, [args |-> debounced.calls[t.call].args,
                            call |-> t.call, at |-> debounced.now,
                            seen |-> Len(debounced.calls)])]

\* A timeout fires.
DebouncedTimeout ==
    /\ \E t \in debounced.timers :
          /\ t.due <= debounced.now
          /\ debounced' = fired(t)
    /\ OthersUnchanged("debounce")

DebounceTick ==
    /\ debounced.now < MaxClock
    /\ debounced' = [debounced EXCEPT !.now = @ + 1]
    /\ OthersUnchanged("debounce")

DebounceInit == debounced = NoDebounced /\ OthersAtRest("debounce")

DebounceNext ==
    \/ \E delay \in Delays : debounce(delay)
    \/ \E args \in Args : Debounced(args)
    \/ DebouncedTimeout
    \/ DebounceTick

DebounceSpec == DebounceInit /\ [][DebounceNext]_vars

\* C17: at most one timeout is pending at any time; func runs only for the
\* most recent call, with its arguments, a full delay or more after it and
\* with no newer call in between, and once; calls before the most recent one
\* never run; and once no timeout is pending, func has run for the most
\* recent call.
DebounceRunsLastCallOnce ==
    LET d == debounced
    IN  /\ Cardinality(d.timers) <= 1
        /\ \A t \in d.timers : t.id = d.timer /\ t.call = Len(d.calls)
        /\ \A i \in 1..Len(d.runs) :
              LET r == d.runs[i]
              IN  /\ r.call = r.seen
                  /\ r.args = d.calls[r.call].args
                  /\ r.at >= d.calls[r.call].at + d.delay
                  /\ \A j \in 1..Len(d.runs) : d.runs[j].call = r.call => j = i
        /\ d.timers = {} /\ d.calls # <<>> =>
              /\ d.runs # <<>>
              /\ d.runs[Len(d.runs)].call = Len(d.calls)

\* C17 witness: three calls, the second and the third each before the delay
\* of the one before was over; func has run once, with the arguments of the
\* third.
ThreeCallsOneRun ==
    LET d == debounced
    IN  /\ Len(d.calls) = 3
        /\ d.delay = 2
        /\ d.calls[2].at = d.calls[1].at + 1
        /\ d.calls[3].at = d.calls[2].at + 1
        /\ d.calls[3].args # d.calls[2].args
        /\ Len(d.runs) = 1
        /\ d.runs[1].args = d.calls[3].args

----------------------------------------------------------------------------
\* throttle(func, limit) of src/src/utils/index.js.  func is the caller's: it
\* returns, and it may call the throttled function itself before it does.

Limits == {1, 2}

\* What func does with the throttled function while it runs: nothing, or one
\* call with these arguments.
Inner == {"none"} \cup Args

\* throttle(func, limit)
throttle(limit) ==
    /\ ~throttled.made
    /\ throttled' = [throttled EXCEPT !.made = TRUE, !.limit = limit]
    /\ OthersUnchanged("throttle")

\* One call of the returned function on state h, func making no call of its
\* own: the test of inThrottle, func.apply, the flag, the timeout.
throttledOnce(h, args) ==
    IF ~h.inThrottle
    THEN [h EXCEPT !.runs = Append(@, [args |-> args, at |-> h.now]),
                   !.inThrottle = TRUE,
                   !.timers = Append(@, h.now + h.limit)]
    ELSE h

\* The returned function is called with args; inner: what func does inside.
\* The flag is still unset while func runs, so func's own call runs func
\* again, sets the flag and a timeout, and returns; then the outer call sets
\* the flag and its timeout.
Throttled(args, inner) ==
    /\ throttled.made
    /\ Len(throttled.calls) < MaxCalls
    /\ LET h == [throttled EXCEPT
                    !.calls = Append(@, [args |-> args, at |-> throttled.now])]
           ran == [h EXCEPT !.runs = Append(@, [args |-> args, at |-> h.now])]
       IN  throttled' =
               IF h.inThrottle THEN h
               ELSE IF inner = "none" THEN throttledOnce(h, args)
               ELSE [throttledOnce(ran, inner) EXCEPT
                        !.inThrottle = TRUE,
                        !.timers = Append(@, h.now + h.limit)]
    /\ OthersUnchanged("throttle")

\* A timeout fires: inThrottle = false.
ThrottledTimeout ==
    /\ \E i \in 1..Len(throttled.timers) :
          /\ throttled.timers[i] <= throttled.now
          /\ throttled' =
                 [throttled EXCEPT
                     !.inThrottle = FALSE,
                     !.timers = SubSeq(@, 1, i - 1) \o SubSeq(@, i + 1, Len(@))]
    /\ OthersUnchanged("throttle")

ThrottleTick ==
    /\ throttled.now < MaxClock
    /\ throttled' = [throttled EXCEPT !.now = @ + 1]
    /\ OthersUnchanged("throttle")

ThrottleInit == throttled = NoThrottled /\ OthersAtRest("throttle")

ThrottleNext ==
    \/ \E limit \in Limits : throttle(limit)
    \/ \E args \in Args, inner \in Inner : Throttled(args, inner)
    \/ ThrottledTimeout
    \/ ThrottleTick

ThrottleSpec == ThrottleInit /\ [][ThrottleNext]_vars

\* C18: func runs at most once in every interval of length limit; the first
\* call runs func at once, with its arguments; a call made while the
\* throttle period is active does not run func; for any sequence of calls,
\* calls made by func itself included.
ThrottleRunsOncePerLimit ==
    LET h == throttled
    IN  /\ \A i, j \in 1..Len(h.runs) : i < j => h.runs[j].at >= h.runs[i].at + h.limit
        /\ h.calls # <<>> =>
              /\ h.runs # <<>>
              /\ h.runs[1] = h.calls[1]
        /\ h.inThrottle => h.runs # <<>> /\ h.timers # <<>>

----------------------------------------------------------------------------
\* mergeObjects(target, ...sources) of src/src/utils/index.js, on objects
\* with the keys a and b whose values are the numbers 0 and 1 and the
\* objects {}, {c: 0}, {c: 1}.

MaxSources == 2

Prims == {0, 1}
\* The keys, in the order `for (let key in source)` visits them.
KeyOrder == <<"a", "b", "c">>
ObjectsOver(keys, values) == UNION {[ks -> values] : ks \in SUBSET keys}
InnerObjects == ObjectsOver({"c"}, {Prim(n) : n \in Prims})
Objects ==
    ObjectsOver({"a", "b"}, {Prim(n) : n \in Prims} \cup {Obj(o) : o \in InnerObjects})

\* JavaScript truthiness: every object, every number but 0.
truthy(v) == v.kind = "obj" \/ v.prim # 0

\* target[key] = value
assign(target, key, value) ==
    [k \in DOMAIN target \cup {key} |-> IF k = key THEN value ELSE target[k]]

\* One source merged into target, from the i-th key on: the target it leaves
\* and what it raises.  target is an object or, in the recursive call
\* mergeObjects(target[key] || {}, source[key]), a truthy primitive: the
\* module is in strict mode, where setting a property on a primitive throws.
RECURSIVE mergeSource(_, _, _)
mergeSource(target, source, i) ==
    IF i > Len(KeyOrder) THEN [raised |-> "none", target |-> target]
    ELSE LET key == KeyOrder[i]
         IN  IF key \notin DOMAIN source THEN mergeSource(target, source, i + 1)
             ELSE IF target.kind = "prim"
             THEN [raised |-> "TypeError", target |-> target]
             ELSE IF source[key].kind = "obj"
             THEN LET old == key \in DOMAIN target.obj /\ truthy(target.obj[key])
                      inner == mergeSource(IF old THEN target.obj[key] ELSE Obj(EmptyObject),
                                           source[key].obj, 1)
                  IN  IF inner.raised # "none"
                      THEN [raised |-> inner.raised,
                            target |-> IF old /\ target.obj[key].kind = "obj"
                                       THEN Obj(assign(target.obj, key, inner.target))
                                       ELSE target]
                      ELSE mergeSource(Obj(assign(target.obj, key, inner.target)),
                                       source, i + 1)
             ELSE mergeSource(Obj(assign(target.obj, key, source[key])), source, i + 1)

\* sources.forEach(...), from the j-th source on.
RECURSIVE mergeSources(_, _, _)
mergeSources(target, sources, j) ==
    IF j > Len(sources) THEN [raised |-> "none", target |-> target]
    ELSE LET one == mergeSource(target, sources[j], 1)
         IN  IF one.raised # "none" THEN one
             ELSE mergeSources(one.target, sources, j + 1)

\* mergeObjects(target, ...sources): result is the target as the call left
\* it, which is what the call returns when it returns.
mergeObjects ==
    /\ ~merged.done
    /\ LET r == mergeSources(Obj(merged.target), merged.sources, 1)
       IN  merged' = [merged EXCEPT !.done = TRUE, !.result = r.target.obj,
                                    !.raised = r.raised]
    /\ OthersUnchanged("mergeObjects")

MergeInit ==
    /\ \E target \in Objects, n \in 1..MaxSources :
          \E sources \in [1..n -> Objects] :
              merged = [NoMerge EXCEPT !.target = target, !.sources = sources]
    /\ OthersAtRest("mergeObjects")

MergeNext == mergeObjects

MergeSpec == MergeInit /\ [][MergeNext]_vars

\* The objects merged, the target first, and for a key the numbers of those
\* that define it.
Given == <<merged.target>> \o merged.sources
Defining(key) == {j \in 1..Len(Given) : key \in DOMAIN Given[j]}
Last(js) == CHOOSE j \in js : \A k \in js : k <= j

\* What merging is to leave at a key some object defines: the value of the
\* last object defining the key when that is a primitive; else an object
\* that holds, for each inner key, the value of the last object defining it
\* among those that define the key since it last held a primitive.
Since(key) ==
    {j \in Defining(key) :
        \A k \in Defining(key) : k >= j => Given[k][key].kind = "obj"}
ValueAt(key) ==
    LET latest == Given[Last(Defining(key))][key]
    IN  IF latest.kind = "prim" THEN latest
        ELSE Obj([c \in UNION {DOMAIN Given[j][key].obj : j \in Since(key)} |->
                     Given[Last({j \in Since(key) : c \in DOMAIN Given[j][key].obj})]
                         [key].obj[c]])

\* C19: mergeObjects returns the target, merged recursively: at every key
\* path it holds the value of the last source defining it, also when an
\* earlier value is a primitive and the later one an object, or the reverse.
MergeHoldsLastValue ==
    merged.done =>
        /\ merged.raised = "none"
        /\ DOMAIN merged.result = {key \in {"a", "b"} : Defining(key) # {}}
        /\ \A key \in DOMAIN merged.result : merged.result[key] = ValueAt(key)

----------------------------------------------------------------------------
\* The FetchService of src/src/utils/index.js: request() and the wrappers
\* get, post, put and delete, the fetch calls in flight, and the entries
\* written to its Logger.

MaxRequests == 2

\* Inputs: the constructor's options, the method called, the options and the
\* body given to it.
\* defaultOptions without a method and without headers stands for {} and for
\* none given; an option that is undefined is an option not given.
FetchServiceOptions ==
    [logger : {Undefined, "console", "csv", "sqlite"},
     defaultOptions : [method : {Undefined, "HEAD"},
                       headers : {NoHeaders, Headers("User-Agent" :> "BunForge")}]]
Vias == {"request", "get", "post", "put", "delete"}
RequestOptions ==
    [method : {Undefined, "PATCH"},
     headers : {NoHeaders, Headers("Accept" :> "text/html"), Headers("User-Agent" :> "mine")},
     body : {Undefined}]
Bodies == {"object", "text"}

StartingRequest == "Starting request to"
ReceivedResponse == "Received response from"
ErrorDuringRequest == "Error during request to"

\* The caller's options object after post or put has run: an object body
\* makes them assign options.headers.
optionsLeft(via, options, body) ==
    IF via \in {"post", "put"} /\ body = "object"
    THEN [options EXCEPT
             !.headers = Headers(("Content-Type" :> "application/json") @@ @.fields)]
    ELSE options

\* get, post, put, delete: the options they pass to request().  post and put
\* send an object as JSON.
optionsOf(via, options, body) ==
    CASE via = "get" -> [options EXCEPT !.method = "GET"]
      [] via = "delete" -> [options EXCEPT !.method = "DELETE"]
      [] via \in {"post", "put"} ->
            [optionsLeft(via, options, body) EXCEPT
                !.body = IF body = "object" THEN "JSON.stringify(body)" ELSE body,
                !.method = IF via = "post" THEN "POST" ELSE "PUT"]
      [] OTHER -> options

\* { ...this.defaultOptions, ...options }: an option of the call replaces the
\* default of that name, the headers object as a whole.
fetchOptions(defaultOptions, options) ==
    [options EXCEPT !.method = IF @ # Undefined THEN @ ELSE defaultOptions.method,
                    !.headers = IF @.given THEN @ ELSE defaultOptions.headers]

NewFetchService(options) ==
    /\ ~fetcher.built
    /\ fetcher' =
           [fetcher EXCEPT
               !.built = TRUE,
               !.logger = IF options.logger = Undefined THEN "console" ELSE options.logger,
               !.defaultOptions = options.defaultOptions]
    /\ OthersUnchanged("FetchService")

\* One more entry of request i when logger.log returned.
fetchLogged(f, level, text, i, write) ==
    IF logOn(f.logger, level, text, write) = "none"
    THEN Append(f.entries, [level |-> level, text |-> text, request |-> i])
    ELSE f.entries

\* request(url, options), called directly or by a wrapper, up to its await:
\* the start entry, then fetch.  When logger.log raises, the promise is
\* rejected with that and fetch is not called.
request(via, options, body) ==
    /\ fetcher.built
    /\ Len(fetcher.requests) < MaxRequests
    /\ \E write \in {"pending", "throws"} :
          LET i == Len(fetcher.requests) + 1
              sent == fetchOptions(fetcher.defaultOptions, optionsOf(via, options, body))
              started == logOn(fetcher.logger, "info", StartingRequest, write) = "none"
          IN  fetcher' =
                  [fetcher EXCEPT
                      !.entries = fetchLogged(fetcher, "info", StartingRequest, i, write),
                      !.requests =
                          Append(@, [via |-> via, options |-> sent,
                                     given |-> options,
                                     left |-> optionsLeft(via, options, body),
                                     body |-> IF via \in {"post", "put"} THEN body
                                              ELSE Undefined,
                                     fetched |-> started,
                                     before |-> IF started THEN Len(fetcher.entries) + 1
                                                ELSE 0,
                                     state |-> IF started THEN "pending" ELSE "rejected",
                                     with |-> IF started THEN "none" ELSE "logger error"])]
    /\ OthersUnchanged("FetchService")

\* The catch block: the error entry, then `throw error`.
caught(f, i, error, write) ==
    LET entered == logOn(f.logger, "error", ErrorDuringRequest, write) = "none"
    IN  [f EXCEPT !.entries = fetchLogged(f, "error", ErrorDuringRequest, i, write),
                  !.requests[i].state = "rejected",
                  !.requests[i].with = IF entered THEN error ELSE "logger error"]

\* fetch of request i is fulfilled: the response entry, then the response is
\* returned; when logger.log raises there, the catch block runs.
FetchResolved(i) ==
    /\ i \in 1..Len(fetcher.requests)
    /\ fetcher.requests[i].state = "pending"
    /\ \E write \in {"pending", "throws"}, writeInCatch \in {"pending", "throws"} :
          fetcher' =
              IF logOn(fetcher.logger, "info", ReceivedResponse, write) = "none"
              THEN [fetcher EXCEPT
                       !.entries = fetchLogged(fetcher, "info", ReceivedResponse, i, write),
                       !.requests[i].state = "resolved",
                       !.requests[i].with = "response"]
              ELSE caught(fetcher, i, "logger error", writeInCatch)
    /\ OthersUnchanged("FetchService")

\* fetch of request i is rejected: the catch block runs.
FetchRejected(i) ==
    /\ i \in 1..Len(fetcher.requests)
    /\ fetcher.requests[i].state = "pending"
    /\ \E write \in {"pending", "throws"} :
          fetcher' = caught(fetcher, i, "fetch error", write)
    /\ OthersUnchanged("FetchService")

FetchInit == fetcher = NoFetchService /\ OthersAtRest("FetchService")

FetchNext ==
    \/ \E options \in FetchServiceOptions : NewFetchService(options)
    \/ \E via \in Vias, options \in RequestOptions, body \in Bodies :
          request(via, options, body)
    \/ \E i \in 1..MaxRequests : FetchResolved(i)
    \/ \E i \in 1..MaxRequests : FetchRejected(i)

FetchSpec == FetchInit /\ [][FetchNext]_vars

\* The entries that name request i, in the order they were written.
EntriesOf(i) == SelectSeq(fetcher.entries, LAMBDA e : e.request = i)
VerbOf(via) ==
    CASE via = "get" -> "GET" [] via = "post" -> "POST" [] via = "put" -> "PUT"
      [] via = "delete" -> "DELETE"

\* C20: every request logs one info 'Starting request' entry before fetch is
\* invoked; after it comes exactly one of an info 'Received response' entry,
\* the promise then resolving with the response, or an error entry, the
\* promise then rejecting with the error of fetch; get, post, put and delete
\* go through request with their own method, whatever options.method is.
RequestLogsStartThenOneOutcome ==
    \A i \in 1..Len(fetcher.requests) :
        LET r == fetcher.requests[i]
            start == [level |-> "info", text |-> StartingRequest, request |-> i]
            done == [level |-> "info", text |-> ReceivedResponse, request |-> i]
            error == [level |-> "error", text |-> ErrorDuringRequest, request |-> i]
        IN  /\ r.fetched
            /\ fetcher.entries[r.before] = start
            /\ r.state = "pending" => EntriesOf(i) = <<start>>
            /\ r.state = "resolved" => EntriesOf(i) = <<start, done>> /\ r.with = "response"
            /\ r.state = "rejected" =>
                  EntriesOf(i) = <<start, error>> /\ r.with = "fetch error"
            /\ r.via # "request" => r.options.method = VerbOf(r.via)

----------------------------------------------------------------------------
\* I18nProvider (src/src/i18n/I18nProvider.jsx).

MaxI18nCalls == 3

\* Text is a sequence of characters here, so that the placeholder {0} is
\* matched as the regular expression matches it.
\* translations = { en, es }: the tables of the two locale files.  A key is
\* text as well: t returns it when the table has no message for it.
\* The keys: g (a greeting), p (a pair) and b (a blank message, en only).
translations ==
    [en |-> (<<"g">> :> <<"H", "{", "0", "}">>) @@ (<<"p">> :> <<"{", "0", "}", "{", "1", "}">>)
            @@ (<<"b">> :> <<>>),
     es |-> (<<"g">> :> <<"O", "{", "0", "}">>) @@ (<<"p">> :> <<"{", "1", "}", "{", "0", "}">>)]

\* The properties every object literal inherits (two of them).
ObjectPrototype == {"constructor", "toString"}

\* translations[name].
translationsAt(name) ==
    IF name \in DOMAIN translations THEN Value("table", name)
    ELSE IF name \in ObjectPrototype THEN Value("inherited", name)
    ELSE Value("undefined", Undefined)

\* messages[key], messages being translations[...] as read above: a message
\* of the table, a function inherited from Object.prototype, or undefined
\* (the functions of Object.prototype have no property named as the keys).
messagesAt(messages, key) ==
    IF messages.kind = "table" /\ key \in DOMAIN translations[messages.name]
    THEN [kind |-> "string", text |-> translations[messages.name][key]]
    ELSE IF messages.kind = "table" /\ Len(key) = 1 /\ key[1] \in ObjectPrototype
    THEN [kind |-> "function", text |-> key]
    ELSE [kind |-> "undefined", text |-> <<>>]

\* Inputs.
NewLocales == {"en", "es", "fr", "constructor"}
TranslationKeys ==
    {<<"g">>, <<"p">>, <<"b">>, <<"n">>, <<"{", "0", "}">>, <<"constructor">>}
ArgLists ==
    LET values == {<<"x">>, <<"{", "1", "}">>, <<"$", "&">>}
    IN  {<<>>} \cup {<<a>> : a \in values} \cup {<<a, b>> : a, b \in values}

\* <I18nProvider defaultLocale=...>: the first render; defaultLocale must
\* exist in translations.
I18nProvider(defaultLocale) ==
    /\ ~i18n.mounted
    /\ i18n' = [i18n EXCEPT !.mounted = TRUE,
                            !.locale = defaultLocale,
                            !.messages = translationsAt(defaultLocale)]
    /\ OthersUnchanged("I18nProvider")

\* changeLocale(newLocale); the two state updates are applied together.
changeLocale(newLocale) ==
    /\ i18n.mounted
    /\ i18n.calls < MaxI18nCalls
    /\ i18n' =
          LET called == [i18n EXCEPT !.calls = @ + 1,
                                     !.last = [NoCall EXCEPT !.op = "changeLocale",
                                                             !.locale = newLocale]]
          IN  IF translationsAt(newLocale).kind # "undefined"
              THEN [called EXCEPT !.locale = newLocale,
                                  !.messages = translationsAt(newLocale)]
              ELSE [called EXCEPT !.warnings = Append(@, newLocale)]
    /\ OthersUnchanged("I18nProvider")

\* The replacement text of String.prototype.replace for a match: $$ is a
\* dollar sign and $& the matched text (the other patterns need characters
\* the inputs do not have).
RECURSIVE GetSubstitution(_, _)
GetSubstitution(matched, replacement) ==
    IF replacement = <<>> THEN <<>>
    ELSE IF Len(replacement) >= 2 /\ replacement[1] = "$" /\ replacement[2] = "$"
    THEN <<"$">> \o GetSubstitution(matched, SubSeq(replacement, 3, Len(replacement)))
    ELSE IF Len(replacement) >= 2 /\ replacement[1] = "$" /\ replacement[2] = "&"
    THEN matched \o GetSubstitution(matched, SubSeq(replacement, 3, Len(replacement)))
    ELSE <<Head(replacement)>> \o GetSubstitution(matched, Tail(replacement))

\* The placeholder of an index, as the regular expression spells it.
Placeholder(index) == <<"{", ToString(index), "}">>

\* translation.replace(new RegExp(`\\{${index}\\}`, "g"), value).
RECURSIVE replace(_, _, _)
replace(translation, index, value) ==
    IF translation = <<>> THEN <<>>
    ELSE IF Len(translation) >= 3 /\ SubSeq(translation, 1, 3) = Placeholder(index)
    THEN GetSubstitution(Placeholder(index), value)
         \o replace(SubSeq(translation, 4, Len(translation)), index, value)
    ELSE <<Head(translation)>> \o replace(Tail(translation), index, value)

\* args.forEach((value, index) => ...), from the argument numbered i on
\* (index = i - 1).
RECURSIVE forEach(_, _, _)
forEach(translation, args, i) ==
    IF i > Len(args) THEN translation
    ELSE forEach(replace(translation, i - 1, args[i]), args, i + 1)

\* t(key, ...args).  messages[key] || key takes the key for an empty
\* message too; an inherited function has no replace method.
t(key, args) ==
    /\ i18n.mounted
    /\ i18n.calls < MaxI18nCalls
    /\ i18n' =
          LET found == messagesAt(i18n.messages, key)
              translation == IF found.kind = "string" /\ found.text # <<>> THEN found.text
                             ELSE key
              call == [NoCall EXCEPT !.op = "t", !.key = key, !.args = args]
          IN  [i18n EXCEPT
                 !.calls = @ + 1,
                 !.last =
                     IF found.kind # "function"
                     THEN [call EXCEPT !.returned = forEach(translation, args, 1)]
                     ELSE IF args = <<>>
                     THEN [call EXCEPT !.returned = key, !.string = FALSE]
                     ELSE [call EXCEPT !.raised = "TypeError"]]
    /\ OthersUnchanged("I18nProvider")

I18nInit == i18n = NoProvider /\ OthersAtRest("I18nProvider")

I18nNext ==
    \/ \E defaultLocale \in DOMAIN translations : I18nProvider(defaultLocale)
    \/ \E newLocale \in NewLocales : changeLocale(newLocale)
    \/ \E key \in TranslationKeys, args \in ArgLists : t(key, args)

I18nSpec == I18nInit /\ [][I18nNext]_vars

\* C21: the messages are always the translation table of the locale, which
\* is one of the locales that have a table; changeLocale with such a locale
\* switches both to it, and with any other name leaves both unchanged and
\* emits one warning.
MessagesFollowLocale ==
    [][LET l == i18n'.last.locale
       IN  /\ i18n'.mounted =>
                /\ i18n'.locale \in DOMAIN translations
                /\ i18n'.messages = Value("table", i18n'.locale)
           /\ i18n.mounted /\ i18n'.last.op = "changeLocale" =>
                IF l \in DOMAIN translations
                THEN /\ i18n'.locale = l
                     /\ i18n'.messages = Value("table", l)
                     /\ i18n'.warnings = i18n.warnings
                ELSE /\ i18n'.locale = i18n.locale
                     /\ i18n'.messages = i18n.messages
                     /\ i18n'.warnings = Append(i18n.warnings, l)]_vars

\* The message of the current locale for a key, or the key when the locale
\* has no message for it.
MessageOrKey(key) ==
    IF i18n.messages.kind = "table" /\ key \in DOMAIN translations[i18n.messages.name]
    THEN translations[i18n.messages.name][key]
    ELSE key

\* Every placeholder {i} of the text replaced by args[i], for the arguments
\* supplied, in one pass: inserted text is not looked at again.
RECURSIVE Interpolated(_, _)
Interpolated(text, args) ==
    IF text = <<>> THEN <<>>
    ELSE IF /\ Len(text) >= 3
            /\ \E i \in 1..Len(args) : SubSeq(text, 1, 3) = Placeholder(i - 1)
         THEN LET i == CHOOSE i \in 1..Len(args) : SubSeq(text, 1, 3) = Placeholder(i - 1)
              IN  args[i] \o Interpolated(SubSeq(text, 4, Len(text)), args)
         ELSE <<Head(text)>> \o Interpolated(Tail(text), args)

\* C22: t(key, ...args) returns the message of the current locale for key,
\* or key when the locale has none, with every placeholder {i} replaced by
\* args[i]; inserted text is not interpolated again.
TranslationInterpolatesOnce ==
    i18n.last.op = "t" =>
        /\ i18n.last.raised = "none"
        /\ i18n.last.string
        /\ i18n.last.returned = Interpolated(MessageOrKey(i18n.last.key), i18n.last.args)

----------------------------------------------------------------------------
\* ErrorBoundary (src/src/components/ErrorBoundary.jsx) and the ErrorHandler
\* it constructs.

MaxBoundarySteps == 4

\* props.fallback: none, or a component.
Fallbacks == {Undefined, "CustomFallback"}

\* What a child can throw: an error, or null (which has no message).
Thrown == Errors \cup {[message |-> "null"]}

\* constructor(props): new ErrorHandler() has no options.
NewErrorBoundary(fallback) ==
    /\ ~boundary.built
    /\ boundary' = [NoBoundary EXCEPT !.built = TRUE, !.fallback = fallback]
    /\ handler' =
          ErrorHandler([logger |-> Undefined, sentryEnabled |-> FALSE,
                        sentryDsn |-> Undefined], "pending")
    /\ OthersUnchanged("ErrorBoundary")

\* componentDidCatch that hands the error over and leaves the state alone.
componentDidCatchKeepsState(error, info) ==
    /\ boundary.built
    /\ boundary.steps < MaxBoundarySteps
    /\ boundary' = [boundary EXCEPT !.caught = @ + 1, !.handed = @ + 1, !.steps = @ + 1]
    /\ handler' = captured(error, info, "pending")
    /\ OthersUnchanged("ErrorBoundary")

\* componentDidCatch(error, info): the state update is enqueued first, so it
\* is made also when captureError raises (error.message of null).
componentDidCatch(error, info) ==
    /\ boundary.built
    /\ boundary.steps < MaxBoundarySteps
    /\ handler' = IF error.message = "null" THEN handler
                  ELSE captured(error, info, "pending")
    /\ boundary' = [boundary EXCEPT
                       !.hasError = TRUE,
                       !.caught = @ + 1,
                       !.handed = @ + 1,
                       !.steps = @ + 1,
                       !.raised = IF error.message = "null" THEN "TypeError"
                                  ELSE handler'.raised]
    /\ OthersUnchanged("ErrorBoundary")

\* render().
BoundaryRender ==
    /\ boundary.built
    /\ boundary.steps < MaxBoundarySteps
    /\ boundary' = [boundary EXCEPT
                       !.steps = @ + 1,
                       !.returned =
                           IF boundary.hasError
                           THEN (IF boundary.fallback # Undefined THEN boundary.fallback
                                 ELSE "Spinner")
                           ELSE "children"]
    /\ UNCHANGED handler
    /\ OthersUnchanged("ErrorBoundary")

BoundaryInit == boundary = NoBoundary /\ handler = NoHandler /\ OthersAtRest("ErrorBoundary")

BoundaryNext ==
    \/ \E fallback \in Fallbacks : NewErrorBoundary(fallback)
    \/ \E error \in Thrown, info \in Contexts : componentDidCatch(error, info)
    \/ BoundaryRender

BoundarySpec == BoundaryInit /\ [][BoundaryNext]_vars

----------------------------------------------------------------------------
\* Further properties of the Logger.

\* C24: when a sqlite sink is downgraded because the database capability is
\* missing (in a browser, or bun:sqlite not loaded), the constructor emits
\* one diagnostic, with console.warn, and none with console.error.
DowngradeOnlyWarns ==
    sink = "open" /\ requested = "sqlite" /\ (window \/ ~Database) =>
        LET emitted == SelectSeq(Diagnostics, LAMBDA e : e # LoadFailed)
        IN  /\ Len(emitted) = 1
            /\ emitted[1].chan = "console.warn"

\* C25: a connection the constructor has opened is not open any more once
\* close() has been called and db.close() has not failed; so too when
\* creating the logs table failed and the sink became a console sink.
ConnectionReleasedByClose ==
    closes > 0 /\ ~Printed(CloseFailed) => conn # "open"

\* A CSV reader with standard quoting (RFC 4180), at character i of the text.
\* state: "start" of a field, "bare" in an unquoted field, "quoted" in a
\* quoted field, "closed" after a quote in a quoted field.
RECURSIVE ReadCsv(_, _, _, _, _, _)
ReadCsv(text, i, state, field, fields, records) ==
    LET record == Append(fields, field)
    IN  IF i > Len(text)
        THEN [ok |-> state # "quoted",
              records |-> IF state = "start" /\ fields = <<>> THEN records
                          ELSE Append(records, record)]
        ELSE LET c == text[i]
             IN  CASE state = "quoted" /\ c = Q ->
                        ReadCsv(text, i + 1, "closed", field, fields, records)
                   [] state = "quoted" /\ c # Q ->
                        ReadCsv(text, i + 1, "quoted", Append(field, c), fields, records)
                   [] state = "closed" /\ c = Q ->
                        ReadCsv(text, i + 1, "quoted", Append(field, Q), fields, records)
                   [] state = "start" /\ c = Q ->
                        ReadCsv(text, i + 1, "quoted", <<>>, fields, records)
                   [] state # "quoted" /\ c = "," ->
                        ReadCsv(text, i + 1, "start", <<>>, record, records)
                   [] state # "quoted" /\ c = NL ->
                        ReadCsv(text, i + 1, "start", <<>>, <<>>, Append(records, record))
                   [] state \in {"start", "bare"} /\ c \notin {Q, ",", NL} ->
                        ReadCsv(text, i + 1, "bare", Append(field, c), fields, records)
                   [] OTHER -> [ok |-> FALSE, records |-> records]

\* C26: the text one log(level, message) call appends to the file is one
\* line, and a CSV reader reads it back as one record of three fields: the
\* timestamp, the level and the message of the call.
CsvRecordReadsBack ==
    sink = "open" /\ this.type = "csv" /\ Len(calls) = 1 /\ pending = {} /\ ~failed =>
        LET read == ReadCsv(Written, 1, "start", <<>>, <<>>, <<>>)
        IN  /\ Lines(Written) = 1
            /\ read.ok
            /\ read.records = <<<<calls[1].timestamp, calls[1].level, calls[1].message>>>>

----------------------------------------------------------------------------
\* NewsExplorer (src/unnamed/part_005): the search box, the debounced search
\* and the searches in flight.  It uses the debounce of the utilities with a
\* delay of 500 ms, one tick of the clock.  Its logger is a console sink
\* (the csv and sqlite sinks are not constructed in a browser).

\* The first render and its effect: fetchArticles("react").
NewsExplorer ==
    /\ ~news.mounted
    /\ news' = [NoNews EXCEPT !.mounted = TRUE, !.query = "react"]
    /\ debounced' = calledWith([NoDebounced EXCEPT !.made = TRUE, !.delay = 1], "react")
    /\ OthersUnchanged("NewsExplorer")

\* handleSearchChange with a new value, the render and the effect after it:
\* fetchArticles(query).  The search box is not rendered while error is set.
handleSearchChange(value) ==
    /\ news.mounted
    /\ ~news.error
    /\ value # news.query
    /\ Len(debounced.calls) < MaxCalls
    /\ news' = [news EXCEPT !.query = value]
    /\ debounced' = calledWith(debounced, value)
    /\ OthersUnchanged("NewsExplorer")

\* The timeout of the debounced function fires: the search starts, up to
\* the await of fetchService.get.
SearchStarted ==
    /\ \E timer \in debounced.timers :
          /\ timer.due <= debounced.now
          /\ debounced' = fired(timer)
          /\ news' = [news EXCEPT
                         !.loading = TRUE,
                         !.searches = Append(@, [query |-> debounced.calls[timer.call].args,
                                                 state |-> "pending"])]
    /\ OthersUnchanged("NewsExplorer")

\* The response of search i has arrived and was read: the try block ends,
\* then the finally block.
SearchResolved(i) ==
    /\ i \in 1..Len(news.searches)
    /\ news.searches[i].state = "pending"
    /\ news' = [news EXCEPT !.searches[i].state = "done",
                            !.articles = news.searches[i].query,
                            !.error = FALSE,
                            !.loading = FALSE]
    /\ UNCHANGED debounced
    /\ OthersUnchanged("NewsExplorer")

\* The request of search i, or reading its response, has failed: the catch
\* block, then the finally block.
SearchRejected(i) ==
    /\ i \in 1..Len(news.searches)
    /\ news.searches[i].state = "pending"
    /\ news' = [news EXCEPT !.searches[i].state = "failed",
                            !.error = TRUE,
                            !.loading = FALSE]
    /\ UNCHANGED debounced
    /\ OthersUnchanged("NewsExplorer")

NewsTick ==
    /\ news.mounted
    /\ debounced.now < MaxClock
    /\ debounced' = [debounced EXCEPT !.now = @ + 1]
    /\ UNCHANGED news
    /\ OthersUnchanged("NewsExplorer")

NewsInit == news = NoNews /\ debounced = NoDebounced /\ OthersAtRest("NewsExplorer")

NewsNext ==
    \/ NewsExplorer
    \/ \E value \in Args : handleSearchChange(value)
    \/ SearchStarted
    \/ \E i \in 1..MaxCalls : SearchResolved(i)
    \/ \E i \in 1..MaxCalls : SearchRejected(i)
    \/ NewsTick

NewsSpec == NewsInit /\ [][NewsNext]_vars

\* C27: while a search is in flight, loading is true; once every search that
\* was started has settled, loading is false and what is shown is the
\* outcome of the search issued last: its articles, or its error.
ArticlesOfLatestSearch ==
    LET n == Len(news.searches)
        inFlight == \E i \in 1..n : news.searches[i].state = "pending"
    IN  /\ inFlight => news.loading
        /\ n > 0 /\ ~inFlight =>
              /\ ~news.loading
              /\ IF news.searches[n].state = "done"
                 THEN ~news.error /\ news.articles = news.searches[n].query
                 ELSE news.error

----------------------------------------------------------------------------
\* buildQueryString and parseQueryString of src/src/utils/index.js.  A string
\* is a sequence of characters; an object with string keys and values is a
\* function from its keys to their values.

MaxParams == 2

\* Keys and values: text with the characters a query string gives a meaning.
QueryTexts == {<<>>, <<"a">>, <<"&">>, <<"=">>, <<"?">>, <<"%">>, <<"a", "=", "&">>}

\* The objects given to buildQueryString, as their entries in order.
ParamEntries ==
    {entries \in UNION {[1..n -> [key : QueryTexts, value : QueryTexts]] : n \in 0..MaxParams} :
        \A i, j \in 1..Len(entries) : i # j => entries[i].key # entries[j].key}

\* encodeURIComponent: the reserved characters of the model are escaped.
RECURSIVE encodeURIComponent(_)
encodeURIComponent(text) ==
    IF text = <<>> THEN <<>>
    ELSE (CASE Head(text) = "&" -> <<"%", "2", "6">>
            [] Head(text) = "=" -> <<"%", "3", "D">>
            [] Head(text) = "?" -> <<"%", "3", "F">>
            [] Head(text) = "%" -> <<"%", "2", "5">>
            [] OTHER -> <<Head(text)>>)
         \o encodeURIComponent(Tail(text))

\* decodeURIComponent: ok is FALSE for a malformed escape (URIError).
RECURSIVE decodeURIComponent(_)
decodeURIComponent(text) ==
    IF text = <<>> THEN [ok |-> TRUE, text |-> <<>>]
    ELSE IF Head(text) # "%"
    THEN LET rest == decodeURIComponent(Tail(text))
         IN  [ok |-> rest.ok, text |-> <<Head(text)>> \o rest.text]
    ELSE IF Len(text) < 3 \/ SubSeq(text, 2, 3) \notin {<<"2", "6">>, <<"3", "D">>,
                                                         <<"3", "F">>, <<"2", "5">>}
    THEN [ok |-> FALSE, text |-> <<>>]
    ELSE LET rest == decodeURIComponent(SubSeq(text, 4, Len(text)))
             code == SubSeq(text, 2, 3)
         IN  [ok |-> rest.ok,
              text |-> <<CASE code = <<"2", "6">> -> "&" [] code = <<"3", "D">> -> "="
                           [] code = <<"3", "F">> -> "?" [] OTHER -> "%">> \o rest.text]

\* String.prototype.split(separator): the pieces between the separators, one
\* piece (the text itself) when there is none.
RECURSIVE split(_, _)
split(text, separator) ==
    IF \A i \in 1..Len(text) : text[i] # separator THEN <<text>>
    ELSE LET at == CHOOSE i \in 1..Len(text) :
                       text[i] = separator /\ \A j \in 1..(i - 1) : text[j] # separator
         IN  <<SubSeq(text, 1, at - 1)>> \o split(SubSeq(text, at + 1, Len(text)), separator)

\* buildQueryString(params)
buildQueryString(params) ==
    /\ query.op = "none"
    /\ LET pair(e) == encodeURIComponent(e.key) \o <<"=">> \o encodeURIComponent(e.value)
           RECURSIVE join(_)
           join(i) == IF i > Len(params) THEN <<>>
                      ELSE (IF i > 1 THEN <<"&">> ELSE <<>>) \o pair(params[i]) \o join(i + 1)
       IN  query' = [query EXCEPT !.op = "built", !.params = params,
                                  !.built = <<"?">> \o join(1)]
    /\ OthersUnchanged("queryString")

\* parseQueryString(queryString), for the query string built last.
parseQueryString ==
    /\ query.op = "built"
    /\ LET keyValues == split(IF query.built # <<>> /\ Head(query.built) = "?"
                              THEN Tail(query.built) ELSE query.built, "&")
           key(i) == decodeURIComponent(split(keyValues[i], "=")[1])
           value(i) == LET parts == split(keyValues[i], "=")
                       IN  decodeURIComponent(IF Len(parts) >= 2 THEN parts[2] ELSE <<>>)
           RECURSIVE reduce(_, _)
           reduce(acc, i) ==
               IF i > Len(keyValues) THEN [raised |-> "none", acc |-> acc]
               ELSE IF ~key(i).ok \/ ~value(i).ok THEN [raised |-> "URIError", acc |-> acc]
               ELSE reduce((key(i).text :> value(i).text) @@ acc, i + 1)
           r == reduce(EmptyObject, 1)
       IN  query' = [query EXCEPT !.op = "parsed", !.parsed = r.acc, !.raised = r.raised]
    /\ OthersUnchanged("queryString")

QueryInit == query = NoQuery /\ OthersAtRest("queryString")

QueryNext ==
    \/ \E params \in ParamEntries : buildQueryString(params)
    \/ parseQueryString

QuerySpec == QueryInit /\ [][QueryNext]_vars

\* C28: parseQueryString(buildQueryString(p)) is p, for every object p with
\* string keys and string values, the empty object too.
ParseInvertsBuild ==
    query.op = "parsed" =>
        /\ query.raised = "none"
        /\ DOMAIN query.parsed = {query.params[i].key : i \in 1..Len(query.params)}
        /\ \A i \in 1..Len(query.params) :
              query.parsed[query.params[i].key] = query.params[i].value

----------------------------------------------------------------------------
\* A further property of FetchService.

\* C29: a request that is sent carries the default method unless the call
\* sets a method, and every default header unless the call sets that header
\* (post and put with an object body set Content-Type); and post and put
\* leave the caller's options object as it was.
DefaultsCarriedUnlessOverridden ==
    \A i \in 1..Len(fetcher.requests) :
        LET r == fetcher.requests[i]
            defaults == fetcher.defaultOptions
            ofCall == IF r.via \in {"post", "put"} /\ r.body = "object"
                      THEN DOMAIN r.given.headers.fields \cup {"Content-Type"}
                      ELSE DOMAIN r.given.headers.fields
        IN  r.fetched =>
              /\ r.via = "request" /\ r.given.method = Undefined =>
                    r.options.method = defaults.method
              /\ \A h \in DOMAIN defaults.headers.fields \ ofCall :
                    /\ h \in DOMAIN r.options.headers.fields
                    /\ r.options.headers.fields[h] = defaults.headers.fields[h]
              /\ \A h \in DOMAIN r.given.headers.fields :
                    /\ h \in DOMAIN r.options.headers.fields
                    /\ h # "Content-Type" => r.options.headers.fields[h] = r.given.headers.fields[h]
              /\ r.left = r.given

====
